---- MODULE Spec2Model ----
(***************************************************************************)
(* Workout completion and personal-record engine of the gym backend:       *)
(* WorkoutService (services/workout.service.ts), the PR detector           *)
(* (utils/calculators.ts) and the Workout, Record and Progress collections *)
(* with the constraints their mongoose schemas put on them.                *)
(*                                                                         *)
(* The store is MongoDB: completeWorkout runs inside one multi-document    *)
(* transaction (snapshot reads, first-writer-wins write conflicts, unique  *)
(* indexes enforced at insert time); the other service methods write       *)
(* outside any transaction.                                                *)
(***************************************************************************)
EXTENDS Integers, Sequences, FiniteSets, TLC

VARIABLES
  workouts,   \* committed Workout collection: id -> document
  records,    \* committed Record collection, in insertion order
  progress,   \* committed Progress collection, in insertion order
  call,       \* per request worker: the completeWorkout invocation it runs
  stale,      \* per worker: its workout document was rewritten by a commit
              \*   made after the transaction's snapshot
  overlap,    \* per worker: another completeWorkout on the same id was open
              \*   at some point of this invocation (history)
  opCount     \* number of writes made outside a transaction so far

vars == <<workouts, records, progress, call, stale, overlap, opCount>>
store == <<workouts, records, progress>>

----------------------------------------------------------------------------
(* Bounds *)

MaxWorkouts == 1
MaxExercises == 1
MaxOps == 3

Users == {"u1", "u2"}
\* the users that start workouts (the seeded records are theirs)
Owners == {"u1"}
Procs == {"p1", "p2"}
ExerciseIds == {"bench"}
WorkoutIds == 1..MaxWorkouts

----------------------------------------------------------------------------
(* Schemas *)

WorkoutStatus == {"in_progress", "completed", "aborted"}
DefaultStatus == "in_progress"
ProgressTypeEnum == {"weight", "bodyFat", "waist", "chest", "arms", "thighs"}
RecordUniqueKey(r) == <<r.user, r.exercise, r.type>>

WSet(w, r, c) ==
  [weight |-> w, reps |-> r, completed |-> c, isPersonalRecord |-> FALSE]

NoMetrics ==
  [defined |-> FALSE, totalVolume |-> 0, totalReps |-> 0,
   caloriesBurned |-> 0, personalRecords |-> 0]

\* Math.round(x / 20) for x >= 0
RoundDiv20(x) == (x + 10) \div 20

Metrics(tv, tr, pr) ==
  [defined |-> TRUE, totalVolume |-> tv, totalReps |-> tr,
   caloriesBurned |-> RoundDiv20(tv), personalRecords |-> pr]

NewWorkout(u) ==
  [user |-> u, status |-> DefaultStatus, exercises |-> <<>>,
   metrics |-> NoMetrics]

\* Request bodies of addExerciseToWorkout / updateExerciseInWorkout: the
\* sets of one exercise entry.
ExercisePayloads ==
  { <<WSet(100, 1, TRUE)>>,
    <<WSet(110, 1, TRUE)>>,
    <<WSet(110, 1, TRUE), WSet(120, 1, TRUE)>>,
    <<WSet(100, 2, TRUE), WSet(110, 1, FALSE)>>,
    <<WSet(100, 0, TRUE), WSet(110, 1, TRUE), WSet(100, 1, TRUE)>> }

\* updateData of updateWorkout (Partial<IWorkout>)
UpdateInputs ==
  { [field |-> "status", status |-> s, metrics |-> NoMetrics]
      : s \in WorkoutStatus }
  \cup { [field |-> "metrics", status |-> DefaultStatus,
          metrics |-> Metrics(0, 0, 0)] }

SeedRecord(t, v) ==
  [user |-> "u1", exercise |-> "bench", type |-> t, value |-> v,
   workout |-> 0, hasPrevious |-> FALSE]

\* Contents of the Record collection when the service starts: any the unique
\* index admits.
InitialRecords ==
  { <<>>, <<SeedRecord("weight", 100)>> }

----------------------------------------------------------------------------
(* Pure helpers *)

calculateVolume(weight, reps) == weight * reps

RECURSIVE SeqMax(_, _)
SeqMax(s, acc) ==
  IF s = <<>> THEN acc
  ELSE SeqMax(Tail(s), IF Head(s).value > acc.value THEN Head(s) ELSE acc)

\* the query without its user field
Matching_AnyUser(view, userId, exerciseId, type) ==
  SelectSeq(view, LAMBDA r : r.exercise = exerciseId /\ r.type = type)

Matching(view, userId, exerciseId, type) ==
  SelectSeq(view, LAMBDA r : r.user = userId /\ r.exercise = exerciseId
                             /\ r.type = type)

isPersonalRecord_TieCounts(view, userId, exerciseId, weight, reps) ==
  IF reps = 1
  THEN LET m == Matching(view, userId, exerciseId, "weight")
       IN  m = <<>> \/ weight >= SeqMax(Tail(m), Head(m)).value
  ELSE LET volume == calculateVolume(weight, reps)
           m == Matching(view, userId, exerciseId, "volume")
       IN  m = <<>> \/ volume >= SeqMax(Tail(m), Head(m)).value

\* Record.findOne({user, exercise, type}).sort({value: -1}) then the
\* comparison; view is what the transaction reads.
isPersonalRecord(view, userId, exerciseId, weight, reps) ==
  IF reps = 1
  THEN LET m == Matching(view, userId, exerciseId, "weight")
       IN  m = <<>> \/ weight > SeqMax(Tail(m), Head(m)).value
  ELSE LET volume == calculateVolume(weight, reps)
           m == Matching(view, userId, exerciseId, "volume")
       IN  m = <<>> \/ volume > SeqMax(Tail(m), Head(m)).value

----------------------------------------------------------------------------
(* Invocation state *)

IdleCall ==
  [pc |-> "idle", id |-> 0, userId |-> "u1", loadedStatus |-> "none",
   wk |-> NewWorkout("u1"), ei |-> 1, si |-> 1,
   totalVolume |-> 0, totalReps |-> 0, personalRecords |-> 0,
   exerciseVolume |-> 0, exerciseReps |-> 0,
   snapRecords |-> <<>>, recWrites |-> <<>>, progWrites |-> <<>>,
   wkWritten |-> FALSE, err |-> "none", result |-> "none",
   storeFailed |-> FALSE, txn |-> "none", session |-> "none"]

OpenPcs == {"loop", "sessprog", "end"}
TxnOpen(p) == call[p].pc \in OpenPcs

ErrNotFound == "Workout not found"
ErrAlreadyCompleted == "Workout is already completed"
ErrCompleting == "Error completing workout"

Init ==
  /\ workouts = <<>>
  /\ records \in InitialRecords
  /\ progress = <<>>
  /\ call = [p \in Procs |-> IdleCall]
  /\ stale = [p \in Procs |-> FALSE]
  /\ overlap = [p \in Procs |-> FALSE]
  /\ opCount = 0

----------------------------------------------------------------------------
(* Store primitives *)

\* Workout.findOne({ _id: id, user: userId }) evaluated on ws
Found(ws, id, userId) == id \in DOMAIN ws /\ ws[id].user = userId

\* An open transaction holds an uncommitted write on workout id; writes made
\* outside a transaction wait for it.
WriteLocked(id) ==
  \E p \in Procs : TxnOpen(p) /\ call[p].id = id /\ call[p].wkWritten

\* A committed write on workout id makes the snapshot of every transaction
\* that already loaded it out of date.
MarkStale(id, writer) ==
  [p \in Procs |->
     IF p # writer /\ TxnOpen(p) /\ call[p].id = id THEN TRUE ELSE stale[p]]

HasKey(rows, k) == \E i \in 1..Len(rows) : RecordUniqueKey(rows[i]) = k

\* the index declared without unique: true
RecordInsertOk_NotUnique(p, rec) == TRUE

\* RecordSchema.index({ user, exercise, type }, { unique: true }): an insert
\* is refused (E11000, or a write conflict with an uncommitted insert of the
\* same key) when a row with that key exists.
RecordInsertOk(p, rec) ==
  /\ ~HasKey(records, RecordUniqueKey(rec))
  /\ \A q \in Procs :
       (q = p \/ TxnOpen(q)) => ~HasKey(call[q].recWrites, RecordUniqueKey(rec))

\* Record.create([...]) without the session option: written at once
RecordCreate_NoSession(committed, writes, rec) ==
  [committed |-> Append(committed, rec), writes |-> writes]

\* Record.create([...], { session }): the row is part of the transaction.
RecordCreate(committed, writes, rec) ==
  [committed |-> committed, writes |-> Append(writes, rec)]

\* ProgressMetricSchema: enum on type, then the pre('save') range checks.
ProgressValid(d) ==
  /\ d.type \in ProgressTypeEnum
  /\ ~(d.type = "weight" /\ (d.value <= 0 \/ d.value > 500))
  /\ ~(d.type = "bodyFat" /\ (d.value < 0 \/ d.value > 100))
  /\ ~(d.type \in {"chest", "waist", "arms", "thighs"}
        /\ (d.value <= 0 \/ d.value > 300))

\* The stored row: strict mode keeps only the paths of the schema.
ProgressRow(userId, type, value) ==
  [user |-> userId, type |-> type, value |-> value]

\* What a transaction reads from the Record collection.
RecView(c) == c.snapRecords \o c.recWrites

\* workout.save({ session }) is refused with a write conflict when the
\* document changed after the snapshot or another transaction wrote it.
SaveConflict(p) ==
  \/ stale[p]
  \/ \E q \in Procs \ {p} :
       TxnOpen(q) /\ call[q].id = call[p].id /\ call[q].wkWritten

----------------------------------------------------------------------------
(* WorkoutService methods that write outside a transaction *)

createWorkout(u) ==
  /\ Cardinality(DOMAIN workouts) < MaxWorkouts
  /\ workouts' = workouts @@ ((Cardinality(DOMAIN workouts) + 1) :> NewWorkout(u))
  /\ opCount < MaxOps
  /\ opCount' = opCount + 1
  /\ UNCHANGED <<records, progress, call, stale, overlap>>

updateWorkout(id, userId, updateData) ==
  /\ Found(workouts, id, userId)
  /\ ~WriteLocked(id)
  /\ workouts' =
       [workouts EXCEPT ![id] =
          IF updateData.field = "status"
          THEN [@ EXCEPT !.status = updateData.status]
          ELSE [@ EXCEPT !.metrics = updateData.metrics]]
  /\ stale' = MarkStale(id, "none")
  /\ opCount < MaxOps
  /\ opCount' = opCount + 1
  /\ UNCHANGED <<records, progress, call, overlap>>

addExerciseToWorkout(id, userId, exerciseId, sets) ==
  /\ Found(workouts, id, userId)
  /\ workouts[id].status = "in_progress"
  /\ Len(workouts[id].exercises) < MaxExercises
  /\ ~WriteLocked(id)
  /\ workouts' =
       [workouts EXCEPT ![id].exercises =
          Append(@, [exercise |-> exerciseId, sets |-> sets])]
  /\ stale' = MarkStale(id, "none")
  /\ opCount < MaxOps
  /\ opCount' = opCount + 1
  /\ UNCHANGED <<records, progress, call, overlap>>

updateExerciseInWorkout(id, userId, exerciseIndex, sets) ==
  /\ Found(workouts, id, userId)
  /\ exerciseIndex \in 1..Len(workouts[id].exercises)
  /\ ~WriteLocked(id)
  /\ workouts' = [workouts EXCEPT ![id].exercises[exerciseIndex].sets = sets]
  /\ stale' = MarkStale(id, "none")
  /\ opCount < MaxOps
  /\ opCount' = opCount + 1
  /\ UNCHANGED <<records, progress, call, overlap>>

----------------------------------------------------------------------------
(* WorkoutService.completeWorkout, one action per store round trip *)

\* the guard comparing with a value the status enum does not have
AlreadyCompleted_WrongLiteral(wk) == wk.status = "complete"

AlreadyCompleted(wk) == wk.status = "completed"

Fail(c, e) == [c EXCEPT !.err = e, !.pc = "end"]

\* A store round trip that fails (network, timeout, step-down): the driver
\* throws, which the catch block turns into the generic 400.
StoreFailure(c) == [Fail(c, ErrCompleting) EXCEPT !.storeFailed = TRUE]

\* startSession, startTransaction, findOne(...).session(session), the two
\* guards, then the in-memory status change.
CompleteStart(p, id, userId) ==
  /\ call[p].pc = "idle"
  /\ \E storeFails \in BOOLEAN :
       LET c0 == [IdleCall EXCEPT !.id = id, !.userId = userId,
                                  !.snapRecords = records,
                                  !.txn = "active",
                                  !.session = "open"]
       IN call' = [call EXCEPT ![p] =
            IF storeFails THEN StoreFailure(c0)
            ELSE IF ~Found(workouts, id, userId) THEN Fail(c0, ErrNotFound)
            ELSE IF AlreadyCompleted(workouts[id])
                 THEN Fail([c0 EXCEPT !.loadedStatus = workouts[id].status],
                           ErrAlreadyCompleted)
            ELSE [c0 EXCEPT !.pc = "loop",
                            !.loadedStatus = workouts[id].status,
                            !.wk = [workouts[id] EXCEPT !.status = "completed"]]]
  /\ stale' = [stale EXCEPT ![p] = FALSE]
  /\ overlap' =
       [q \in Procs |->
          IF q = p THEN \E r \in Procs \ {p} : TxnOpen(r) /\ call[r].id = id
          ELSE overlap[q] \/ (TxnOpen(q) /\ call[q].id = id)]
  /\ UNCHANGED <<store, opCount>>

\* the loop writing each Record at once with an insert that no index checks
ProcessSet_DirectInsert(p) ==
  LET c  == call[p]
      ex == c.wk.exercises[c.ei]
      st == ex.sets[c.si]
      acc == [c EXCEPT !.si = c.si + 1,
                       !.exerciseReps = c.exerciseReps + st.reps,
                       !.exerciseVolume =
                          c.exerciseVolume + calculateVolume(st.weight, st.reps)]
      rec == [user |-> c.userId, exercise |-> ex.exercise,
              type |-> IF st.reps = 1 THEN "weight" ELSE "volume",
              value |-> IF st.reps = 1 THEN st.weight ELSE st.weight * st.reps,
              workout |-> c.id, hasPrevious |-> FALSE]
  IN
  /\ c.pc = "loop"
  /\ c.ei <= Len(c.wk.exercises)
  /\ c.si <= Len(c.wk.exercises[c.ei].sets)
  /\ IF st.completed /\ isPersonalRecord(RecView(c), c.userId, ex.exercise,
                                         st.weight, st.reps)
     THEN /\ call' = [call EXCEPT ![p] =
                 [acc EXCEPT
                    !.wk.exercises[c.ei].sets[c.si].isPersonalRecord = TRUE,
                    !.personalRecords = c.personalRecords + 1]]
          /\ records' = Append(records, rec)
     ELSE /\ call' = [call EXCEPT ![p] = IF st.completed THEN acc
                                         ELSE [c EXCEPT !.si = c.si + 1]]
          /\ UNCHANGED records
  /\ UNCHANGED <<workouts, progress, stale, overlap, opCount>>

\* One iteration of the inner loop: the set at (ei, si).
ProcessSet(p) ==
  LET c  == call[p]
      ex == c.wk.exercises[c.ei]
      st == ex.sets[c.si]
      next == [c EXCEPT !.si = c.si + 1]
  IN
  /\ c.pc = "loop"
  /\ c.ei <= Len(c.wk.exercises)
  /\ c.si <= Len(c.wk.exercises[c.ei].sets)
  /\ IF ~st.completed
     THEN call' = [call EXCEPT ![p] = next] /\ UNCHANGED records
     ELSE
       \E storeFails \in BOOLEAN :
         LET acc == [next EXCEPT
                       !.exerciseReps = c.exerciseReps + st.reps,
                       !.exerciseVolume =
                          c.exerciseVolume + calculateVolume(st.weight, st.reps)]
             isRecord == isPersonalRecord(RecView(c), c.userId, ex.exercise,
                                          st.weight, st.reps)
             rec == [user |-> c.userId, exercise |-> ex.exercise,
                     type |-> IF st.reps = 1 THEN "weight" ELSE "volume",
                     value |-> IF st.reps = 1 THEN st.weight
                               ELSE st.weight * st.reps,
                     workout |-> c.id, hasPrevious |-> FALSE]
             flagged == [acc EXCEPT
                           !.wk.exercises[c.ei].sets[c.si].isPersonalRecord = TRUE,
                           !.personalRecords = c.personalRecords + 1]
             rc == RecordCreate(records, c.recWrites, rec)
         IN
         IF storeFails
         THEN call' = [call EXCEPT ![p] = StoreFailure(acc)]
              /\ UNCHANGED records
         ELSE IF ~isRecord
         THEN call' = [call EXCEPT ![p] = acc] /\ UNCHANGED records
         ELSE IF ~RecordInsertOk(p, rec)
         THEN call' = [call EXCEPT ![p] = Fail(flagged, ErrCompleting)]
              /\ UNCHANGED records
         ELSE /\ call' = [call EXCEPT ![p] = [flagged EXCEPT !.recWrites = rc.writes]]
              /\ records' = rc.committed
  /\ UNCHANGED <<workouts, progress, stale, overlap, opCount>>

\* End of one exercise entry: totals, then Progress.create for the exercise.
ExerciseProgress(p) ==
  LET c == call[p]
      ex == c.wk.exercises[c.ei]
      doc == ProgressRow(c.userId, "exercise", c.exerciseVolume)
      summed == [c EXCEPT !.totalVolume = c.totalVolume + c.exerciseVolume,
                          !.totalReps = c.totalReps + c.exerciseReps]
  IN
  /\ c.pc = "loop"
  /\ c.ei <= Len(c.wk.exercises)
  /\ c.si > Len(c.wk.exercises[c.ei].sets)
  /\ \E storeFails \in BOOLEAN :
       call' = [call EXCEPT ![p] =
         IF storeFails THEN StoreFailure(summed)
         ELSE IF ~ProgressValid(doc) THEN Fail(summed, ErrCompleting)
         ELSE [summed EXCEPT !.progWrites = Append(c.progWrites, doc),
                             !.ei = c.ei + 1, !.si = 1,
                             !.exerciseVolume = 0, !.exerciseReps = 0]]
  /\ UNCHANGED <<store, stale, overlap, opCount>>

\* After the outer loop: workout.metrics, then workout.save({ session }).
SaveWorkout(p) ==
  LET c == call[p]
      withMetrics ==
        [c EXCEPT !.wk.metrics =
           Metrics(c.totalVolume, c.totalReps, c.personalRecords)]
  IN
  /\ c.pc = "loop"
  /\ c.ei > Len(c.wk.exercises)
  /\ \E storeFails \in BOOLEAN :
       call' = [call EXCEPT ![p] =
         IF storeFails THEN StoreFailure(withMetrics)
         ELSE IF SaveConflict(p) THEN Fail(withMetrics, ErrCompleting)
         ELSE [withMetrics EXCEPT !.wkWritten = TRUE, !.pc = "sessprog"]]
  /\ UNCHANGED <<store, stale, overlap, opCount>>

\* Progress.create of the two session-level documents.
SessionProgress(p) ==
  LET c == call[p]
      d1 == ProgressRow(c.userId, "performance", 0)
      d2 == ProgressRow(c.userId, "performance", c.totalVolume)
  IN
  /\ c.pc = "sessprog"
  /\ \E storeFails \in BOOLEAN :
       call' = [call EXCEPT ![p] =
         IF storeFails THEN StoreFailure(c)
         ELSE IF ~ProgressValid(d1) \/ ~ProgressValid(d2)
         THEN Fail(c, ErrCompleting)
         ELSE [c EXCEPT !.progWrites = c.progWrites \o <<d1, d2>>,
                        !.pc = "end"]]
  /\ UNCHANGED <<store, stale, overlap, opCount>>

\* an abort that leaves the Records of the session in the collection
AbortTransaction_KeepsRecords(p) ==
  <<workouts, records \o call[p].recWrites, progress>>

\* session.abortTransaction(): every write enlisted in the session is dropped.
AbortTransaction(p) == store

\* session.commitTransaction(): the writes of the session become visible.
CommitTransaction(p) ==
  LET c == call[p] IN
  << IF c.wkWritten THEN [workouts EXCEPT ![c.id] = c.wk] ELSE workouts,
     records \o c.recWrites,
     progress \o c.progWrites >>

StoreBecomes(t) ==
  /\ workouts' = t[1]
  /\ records' = t[2]
  /\ progress' = t[3]

\* the finally block left out
EndSession_Skipped(c) == c

\* finally { session.endSession() }
EndSession(c) == [c EXCEPT !.session = "ended"]

\* the catch block running the completion again after a generic failure
CompleteEnd_Retries(p) ==
  LET c == call[p]
      again == [IdleCall EXCEPT
                  !.pc = "loop", !.id = c.id, !.userId = c.userId,
                  !.snapRecords = records, !.txn = "active",
                  !.session = "open", !.loadedStatus = c.loadedStatus,
                  !.wk = [workouts[c.id] EXCEPT !.status = "completed"]]
  IN
  /\ c.pc = "end"
  /\ StoreBecomes(AbortTransaction(p))
  /\ call' = [call EXCEPT ![p] =
       IF c.err = ErrCompleting /\ Found(workouts, c.id, c.userId)
       THEN again
       ELSE EndSession([c EXCEPT !.pc = "done", !.txn = "aborted",
                                 !.result = c.err])]
  /\ stale' = [stale EXCEPT ![p] = FALSE]
  /\ UNCHANGED <<overlap, opCount>>

\* commitTransaction, or the catch block, then finally endSession.
CompleteEnd(p) ==
  LET c == call[p] IN
  /\ c.pc = "end"
  /\ \E storeFails \in BOOLEAN :
       IF c.err = "none" /\ ~storeFails
       THEN /\ StoreBecomes(CommitTransaction(p))
            /\ call' = [call EXCEPT ![p] =
                 EndSession([c EXCEPT !.pc = "done", !.result = "ok",
                                      !.txn = "committed"])]
            /\ stale' = IF c.wkWritten THEN MarkStale(c.id, p) ELSE stale
       ELSE /\ StoreBecomes(AbortTransaction(p))
            /\ call' = [call EXCEPT ![p] =
                 EndSession([c EXCEPT
                    !.pc = "done",
                    !.txn = "aborted",
                    !.storeFailed = c.storeFailed \/ c.err = "none",
                    !.result = IF c.err = "none" THEN ErrCompleting
                               ELSE c.err])]
            /\ stale' = stale
  /\ UNCHANGED <<overlap, opCount>>

\* The caller has the result; the worker takes the next request.
CompleteReturn(p) ==
  /\ call[p].pc = "done"
  /\ call' = [call EXCEPT ![p] = IdleCall]
  /\ stale' = [stale EXCEPT ![p] = FALSE]
  /\ overlap' = [overlap EXCEPT ![p] = FALSE]
  /\ UNCHANGED <<store, opCount>>

----------------------------------------------------------------------------

Next ==
  \/ \E u \in Owners : createWorkout(u)
  \/ \E id \in WorkoutIds, u \in Users, d \in UpdateInputs :
       updateWorkout(id, u, d)
  \/ \E id \in WorkoutIds, u \in Users, e \in ExerciseIds,
        s \in ExercisePayloads : addExerciseToWorkout(id, u, e, s)
  \/ \E id \in WorkoutIds, u \in Users, i \in 1..MaxExercises,
        s \in ExercisePayloads : updateExerciseInWorkout(id, u, i, s)
  \/ \E p \in Procs, id \in WorkoutIds, u \in Users :
       CompleteStart(p, id, u)
  \/ \E p \in Procs : ProcessSet(p)
  \/ \E p \in Procs : ExerciseProgress(p)
  \/ \E p \in Procs : SaveWorkout(p)
  \/ \E p \in Procs : SessionProgress(p)
  \/ \E p \in Procs : CompleteEnd(p)
  \/ \E p \in Procs : CompleteReturn(p)

Spec == Init /\ [][Next]_vars

----------------------------------------------------------------------------
(* The record decision on its own: isPersonalRecord applied to drawn inputs *)

\* Contents of the Record collection the decision is applied to: per key at
\* most one row (the unique index), for the caller's key of either type and
\* for another user's weight key.
ProbeRows(t, u) ==
  { <<>> } \cup { << [SeedRecord(t, v) EXCEPT !.user = u] >> : v \in {100, 200} }

ProbeViews ==
  { w \o v \o o : w \in ProbeRows("weight", "u1"),
                  v \in ProbeRows("volume", "u1"),
                  o \in ProbeRows("weight", "u2") }

ProbeWeights == {100, 110, 200}
ProbeReps == {0, 1, 2}

InitPR ==
  /\ workouts = <<>>
  /\ records \in ProbeViews
  /\ progress = <<>>
  /\ call = [p \in Procs |-> IdleCall]
  /\ stale = [p \in Procs |-> FALSE]
  /\ overlap = [p \in Procs |-> FALSE]
  /\ opCount = 0

\* One call isPersonalRecord(userId, exerciseId, weight, reps) outside any
\* transaction: the set and the verdict are kept in the caller's frame, in
\* place of those of its previous call.
Judge(p, userId, exerciseId, weight, reps) ==
  /\ call' = [call EXCEPT ![p] =
       [IdleCall EXCEPT
          !.pc = "judged",
          !.userId = userId,
          !.wk = [NewWorkout(userId) EXCEPT !.exercises =
                    << [exercise |-> exerciseId,
                        sets |-> << [WSet(weight, reps, TRUE) EXCEPT
                                       !.isPersonalRecord =
                                          isPersonalRecord(records, userId,
                                             exerciseId, weight, reps)] >>] >>]]]
  /\ UNCHANGED <<store, stale, overlap, opCount>>

NextPR ==
  \E p \in Procs, u \in Users, e \in ExerciseIds,
     w \in ProbeWeights, r \in ProbeReps : Judge(p, u, e, w, r)

SpecPR == InitPR /\ [][NextPR]_vars

----------------------------------------------------------------------------
(* Two workouts in progress: completions of different sessions *)

\* Exercise lists of a workout left by createWorkout and at most one
\* addExerciseToWorkout.
PairExercises ==
  { <<>> } \cup
  { << [exercise |-> "bench", sets |-> sets] >> :
      sets \in { <<WSet(110, 1, TRUE)>>, <<WSet(120, 1, TRUE)>> } }

\* The Record collection: rows of the caller and of another user.
PairRecords ==
  { own \o other :
      own \in InitialRecords,
      other \in { <<>>, << [SeedRecord("weight", 200) EXCEPT !.user = "u2"] >> } }

InitPair ==
  /\ workouts \in
       { << [NewWorkout("u1") EXCEPT !.exercises = e1],
            [NewWorkout(u) EXCEPT !.exercises = e2] >> :
           e1 \in PairExercises, e2 \in PairExercises, u \in Users }
  /\ records \in PairRecords
  /\ progress = <<>>
  /\ call = [p \in Procs |-> IdleCall]
  /\ stale = [p \in Procs |-> FALSE]
  /\ overlap = [p \in Procs |-> FALSE]
  /\ opCount = 0

NextPair ==
  \/ \E p \in Procs, id \in DOMAIN workouts, u \in Users :
       CompleteStart(p, id, u)
  \/ \E p \in Procs : ProcessSet(p)
  \/ \E p \in Procs : ExerciseProgress(p)
  \/ \E p \in Procs : SaveWorkout(p)
  \/ \E p \in Procs : SessionProgress(p)
  \/ \E p \in Procs : CompleteEnd(p)
  \/ \E p \in Procs : CompleteReturn(p)

SpecPair == InitPair /\ [][NextPair]_vars

----------------------------------------------------------------------------
(* Vocabulary of the properties *)

Terminal == {"completed", "aborted"}

RECURSIVE SetsVolume(_)
SetsVolume(sets) ==
  IF sets = <<>> THEN 0
  ELSE (IF Head(sets).completed THEN Head(sets).weight * Head(sets).reps ELSE 0)
       + SetsVolume(Tail(sets))

RECURSIVE CompletedVolume(_)
CompletedVolume(exercises) ==
  IF exercises = <<>> THEN 0
  ELSE SetsVolume(Head(exercises).sets) + CompletedVolume(Tail(exercises))

\* weight and reps of the completed sets of one entry, in order
CompletedOf(entry) ==
  LET done == SelectSeq(entry.sets, LAMBDA st : st.completed)
  IN  [i \in 1..Len(done) |-> <<done[i].weight, done[i].reps>>]

\* values stored under one key of the Record collection
LedgerValues(rows, userId, exerciseId, type) ==
  { rows[i].value : i \in { j \in 1..Len(rows) :
                             RecordUniqueKey(rows[j]) = <<userId, exerciseId, type>> } }

KeyCount(rows, k) ==
  Cardinality({ i \in 1..Len(rows) : RecordUniqueKey(rows[i]) = k })

AtMostOnePerKey(rows) ==
  \A i \in 1..Len(rows) : KeyCount(rows, RecordUniqueKey(rows[i])) = 1

Returned(p) == call[p].pc = "done"

\* an invocation that loaded an in_progress workout it owns, ran alone on it
\* and met no store failure
CleanRun(p) ==
  /\ Returned(p)
  /\ call[p].loadedStatus = "in_progress"
  /\ ~call[p].storeFailed
  /\ ~overlap[p]
  /\ ~stale[p]

----------------------------------------------------------------------------
(* Properties *)

\* C1: of two completeWorkout calls that overlap in time on the same
\* in_progress workout, exactly one returns the completed workout and the
\* other returns an error.
C1_ExactlyOneCompletes ==
  \A p \in Procs : \A q \in Procs \ {p} :
    ( /\ Returned(p) /\ Returned(q)
      /\ call[p].id = call[q].id
      /\ call[p].loadedStatus = "in_progress"
      /\ call[q].loadedStatus = "in_progress"
      /\ overlap[p] /\ overlap[q]
      /\ ~call[p].storeFailed /\ ~call[q].storeFailed )
    => ( (call[p].result = "ok") # (call[q].result = "ok") )

\* C2: every step of a completeWorkout invocation other than a successful
\* commit leaves the three collections exactly as they were, so a call that
\* fails at any point after the transaction was opened persists no workout
\* change, no Record and no Progress row.
C2_FailureIsAtomic ==
  [][ \A p \in Procs :
        ( call'[p] # call[p]
          /\ ~(call'[p].pc = "done" /\ call'[p].result = "ok") )
        => UNCHANGED store ]_vars

\* a call returned the generic error after it had written a Record inside its
\* transaction; the workout is still in_progress and no Record persisted
C2_Witness ==
  \E p \in Procs :
    /\ Returned(p)
    /\ call[p].result = ErrCompleting
    /\ call[p].recWrites # <<>>
    /\ call[p].id \in DOMAIN workouts
    /\ workouts[call[p].id].status = "in_progress"
    /\ records = call[p].snapRecords

\* C3: completeWorkout on a workout whose stored status is completed ends
\* with 'Workout is already completed', enlists no write in its transaction
\* and changes none of the three collections.
C3_AlreadyCompletedNoWrites ==
  [][ \A p \in Procs :
        ( call'[p] # call[p] /\ call'[p].loadedStatus = "completed" )
        => /\ UNCHANGED store
           /\ call'[p].pc \in {"end", "done"}
           /\ call'[p].err = ErrAlreadyCompleted
           /\ call'[p].pc = "done" => call'[p].result = ErrAlreadyCompleted
           /\ call'[p].recWrites = <<>>
           /\ call'[p].progWrites = <<>>
           /\ ~call'[p].wkWritten ]_vars

C3_Witness ==
  \E p \in Procs :
    /\ Returned(p)
    /\ call[p].loadedStatus = "completed"
    /\ call[p].result = ErrAlreadyCompleted
    /\ workouts[call[p].id].status = "completed"

\* C4: every stored workout with status completed has metrics whose
\* totalVolume is the sum of weight x reps over its completed sets.
C4_TotalVolumeInvariant ==
  \A id \in DOMAIN workouts :
    workouts[id].status = "completed"
    => /\ workouts[id].metrics.defined
       /\ workouts[id].metrics.totalVolume = CompletedVolume(workouts[id].exercises)

\* C5: no step changes the status of a workout that is completed or aborted.
C5_TerminalStatusIsFinal ==
  [][ \A id \in DOMAIN workouts :
        workouts[id].status \in Terminal
        => workouts'[id].status = workouts[id].status ]_vars

\* C6: no step changes the exercise entries, the sets or the metrics of a
\* workout that is completed or aborted.
C6_TerminalIsImmutable ==
  [][ \A id \in DOMAIN workouts :
        workouts[id].status \in Terminal
        => /\ workouts'[id].exercises = workouts[id].exercises
           /\ workouts'[id].metrics = workouts[id].metrics ]_vars

\* C7: with a stored weight record v for (user, exercise), a clean completion
\* of a workout whose only completed set of that exercise is {w, reps 1}
\* creates no record when w = v, and when w > v it succeeds and leaves w as
\* the stored weight value of the key.
C7_TieBreak ==
  \A p \in Procs :
    LET c == call[p] IN
    ( /\ CleanRun(p)
      /\ Len(c.wk.exercises) = 1
      /\ Len(CompletedOf(c.wk.exercises[1])) = 1
      /\ CompletedOf(c.wk.exercises[1])[1][2] = 1
      /\ LedgerValues(c.snapRecords, c.userId, c.wk.exercises[1].exercise,
                      "weight") # {} )
    => LET e == c.wk.exercises[1].exercise
           w == CompletedOf(c.wk.exercises[1])[1][1]
           old == LedgerValues(c.snapRecords, c.userId, e, "weight")
       IN /\ (w \in old) => (c.recWrites = <<>> /\ records = c.snapRecords)
          /\ (\A v \in old : w > v)
               => /\ c.result = "ok"
                  /\ w \in LedgerValues(records, c.userId, e, "weight")

\* C8: a clean completion of a workout with the completed sets {110, 1} then
\* {120, 1} of one exercise, against a stored weight record of 100, succeeds
\* and leaves exactly one weight Record for the key, of value 120.
C8_InSessionBaseline ==
  \A p \in Procs :
    LET c == call[p] IN
    ( /\ CleanRun(p)
      /\ Len(c.wk.exercises) = 1
      /\ CompletedOf(c.wk.exercises[1]) = << <<110, 1>>, <<120, 1>> >>
      /\ LedgerValues(c.snapRecords, c.userId, c.wk.exercises[1].exercise,
                      "weight") = {100} )
    => /\ c.result = "ok"
       /\ KeyCount(records, <<c.userId, c.wk.exercises[1].exercise, "weight">>) = 1
       /\ LedgerValues(records, c.userId, c.wk.exercises[1].exercise, "weight")
            = {120}

\* C9: the Record collection, as committed and as every transaction sees it
\* with its own pending inserts, holds at most one Record per
\* (user, exercise, type).
C9_OneRecordPerKey ==
  /\ AtMostOnePerKey(records)
  /\ \A p \in Procs : AtMostOnePerKey(records \o call[p].recWrites)
  /\ \A p \in Procs : AtMostOnePerKey(RecView(call[p]))

\* a returned call that flagged two sets of one key: its first insert is in
\* the transaction, the second was refused, and the ledger has no duplicate
C9_Witness ==
  \E p \in Procs :
    /\ Returned(p)
    /\ call[p].personalRecords = 2
    /\ Len(call[p].recWrites) = 1

\* C10: a clean completion (workout exists, owned by the caller, in_progress,
\* valid sets, no concurrent completion, no store failure) returns the
\* completed workout and not an error.
C10_CleanCompletionSucceeds ==
  \A p \in Procs : CleanRun(p) => call[p].result = "ok"

----------------------------------------------------------------------------
(* Vocabulary of the error taxonomy and of the per-set decisions *)

\* kinds of the taxonomy that no AppError of completeWorkout carries
ForbiddenKind == "Forbidden"
ValidationErrorKind == "ValidationError"

NoWrites(c) == c.recWrites = <<>> /\ c.progWrites = <<>> /\ ~c.wkWritten

\* a completed set with negative weight, negative reps or reps of zero
HasInvalidSet(wk) ==
  \E i \in 1..Len(wk.exercises) :
    \E j \in 1..Len(wk.exercises[i].sets) :
      LET st == wk.exercises[i].sets[j]
      IN  st.completed /\ (st.weight < 0 \/ st.reps <= 0)

RECURSIVE SetsReps(_)
SetsReps(sets) ==
  IF sets = <<>> THEN 0
  ELSE (IF Head(sets).completed THEN Head(sets).reps ELSE 0)
       + SetsReps(Tail(sets))

RECURSIVE CompletedReps(_)
CompletedReps(exercises) ==
  IF exercises = <<>> THEN 0
  ELSE SetsReps(Head(exercises).sets) + CompletedReps(Tail(exercises))

\* the call's Record.create was refused by the unique index
InsertRefused(c) == c.personalRecords > Len(c.recWrites)

----------------------------------------------------------------------------
(* Properties, continued *)

\* C11: the first load of completeWorkout answers NotFound when the id has
\* no workout, Forbidden when the workout belongs to another user and
\* AlreadyCompleted when it belongs to the caller with a status other than
\* in_progress, and in these cases enlists no write.
C11_PreconditionErrors ==
  [][ \A p \in Procs :
        ( call[p].pc = "idle" /\ call'[p].pc # "idle"
          /\ ~call'[p].storeFailed )
        => LET id == call'[p].id
               u  == call'[p].userId
           IN /\ id \notin DOMAIN workouts => call'[p].err = ErrNotFound
              /\ (id \in DOMAIN workouts /\ workouts[id].user # u)
                   => call'[p].err = ForbiddenKind
              /\ ( id \in DOMAIN workouts /\ workouts[id].user = u
                   /\ workouts[id].status # "in_progress" )
                   => call'[p].err = ErrAlreadyCompleted
              /\ call'[p].err # "none" => NoWrites(call'[p]) ]_vars

\* C12: an invocation that returns NotFound or AlreadyCompleted from its
\* first load never started a transaction.
C12_ChecksBeforeTransaction ==
  \A p \in Procs :
    ( Returned(p) /\ call[p].result \in {ErrNotFound, ErrAlreadyCompleted} )
    => call[p].txn = "none"

\* C13: completeWorkout on an in_progress workout that holds a completed set
\* with negative weight, negative reps or zero reps returns ValidationError
\* without a transaction and without any write.
C13_InvalidSetRejected ==
  \A p \in Procs :
    ( Returned(p) /\ ~call[p].storeFailed
      /\ call[p].loadedStatus = "in_progress" /\ HasInvalidSet(call[p].wk) )
    => /\ call[p].result = ValidationErrorKind
       /\ call[p].txn = "none"
       /\ NoWrites(call[p])

\* C14: after a clean completion the stored metrics have totalReps equal to
\* the reps, and totalVolume equal to weight x reps, summed over the
\* completed sets only.
C14_TotalsOverCompletedSets ==
  \A p \in Procs :
    CleanRun(p)
    => LET w == workouts[call[p].id] IN
       /\ w.metrics.defined
       /\ w.metrics.totalReps = CompletedReps(w.exercises)
       /\ w.metrics.totalVolume = CompletedVolume(w.exercises)

\* C15: failures of different causes carry different kinds: a workout that
\* is already terminal gives AlreadyCompleted, and a store failure gives a
\* kind that neither a lost race nor a constraint or validation failure
\* gives.
C15_OneKindPerCause ==
  /\ \A p \in Procs :
       ( Returned(p) /\ ~call[p].storeFailed
         /\ call[p].loadedStatus \in Terminal )
       => call[p].result = ErrAlreadyCompleted
  /\ \A p \in Procs : \A q \in Procs \ {p} :
       ( Returned(p) /\ Returned(q)
         /\ call[p].storeFailed /\ ~call[q].storeFailed
         /\ call[q].result # "ok" )
       => call[p].result # call[q].result

\* the set a caller had judged and the verdict it got
Judged(p) == call[p].pc = "judged"
JudgedSet(p) == call[p].wk.exercises[1].sets[1]
JudgedExercise(p) == call[p].wk.exercises[1].exercise

\* C17: for a set with reps = 1 the verdict is "record" exactly when no
\* weight Record exists for (user, exercise) or the set's weight is strictly
\* greater than every stored weight value of the key; a weight equal to the
\* stored value is not a record; the Records of type volume (and of other
\* users) do not enter the decision.
C17_SingleRepDecision ==
  \A p \in Procs :
    (Judged(p) /\ JudgedSet(p).reps = 1)
    => LET st == JudgedSet(p)
           stored == LedgerValues(records, call[p].userId, JudgedExercise(p),
                                  "weight")
       IN /\ st.isPersonalRecord <=> (\A v \in stored : st.weight > v)
          /\ st.weight \in stored => ~st.isPersonalRecord

\* a tie on the weight key is refused although the volume Record of the key
\* is below the set's weight
C17_Witness ==
  \E p \in Procs :
    /\ Judged(p)
    /\ JudgedSet(p).reps = 1
    /\ JudgedSet(p).weight = 200
    /\ call[p].userId = "u1"
    /\ LedgerValues(records, "u1", JudgedExercise(p), "weight") = {200}
    /\ LedgerValues(records, "u1", JudgedExercise(p), "volume") = {100}
    /\ ~JudgedSet(p).isPersonalRecord

\* type and value of the Record a set stands for (lines 237-238)
CandidateType(st) == IF st.reps = 1 THEN "weight" ELSE "volume"
CandidateValue(st) == IF st.reps = 1 THEN st.weight ELSE st.weight * st.reps

\* positions <<entry, set>> of a workout document, in processing order
Positions(wk) ==
  UNION { { <<i, j>> : j \in 1..Len(wk.exercises[i].sets) }
            : i \in 1..Len(wk.exercises) }
Before(x, y) == x[1] < y[1] \/ (x[1] = y[1] /\ x[2] < y[2])
SetAt(wk, x) == wk.exercises[x[1]].sets[x[2]]

\* C18: every Record of type volume a completion writes carries weight x reps
\* of a completed set with reps > 1 of the workout, and a flagged set with
\* reps > 1 is strictly above every volume value stored for its key before
\* the call: no set with other reps is judged against the volume baseline.
C18_VolumeDecision ==
  \A p \in Procs :
    LET c == call[p] IN
    /\ \A i \in 1..Len(c.recWrites) :
         c.recWrites[i].type = "volume"
         => \E x \in Positions(c.wk) :
              /\ SetAt(c.wk, x).completed
              /\ SetAt(c.wk, x).reps > 1
              /\ c.wk.exercises[x[1]].exercise = c.recWrites[i].exercise
              /\ SetAt(c.wk, x).weight * SetAt(c.wk, x).reps = c.recWrites[i].value
    /\ \A x \in Positions(c.wk) :
         (SetAt(c.wk, x).isPersonalRecord /\ SetAt(c.wk, x).reps > 1)
         => \A v \in LedgerValues(c.snapRecords, c.userId,
                                  c.wk.exercises[x[1]].exercise, "volume") :
              SetAt(c.wk, x).weight * SetAt(c.wk, x).reps > v

\* C19: after a clean run, a completed set of the workout is flagged exactly
\* when its candidate value is strictly above every value stored for its key
\* before the call and above the candidate of every earlier flagged set of
\* the same type and exercise.
C19_RunningBaseline ==
  \A p \in Procs :
    CleanRun(p)
    => LET c == call[p] IN
       \A x \in Positions(c.wk) :
         LET st == SetAt(c.wk, x)
             e  == c.wk.exercises[x[1]].exercise
         IN st.completed
            => ( st.isPersonalRecord
                 <=> /\ \A v \in LedgerValues(c.snapRecords, c.userId, e,
                                              CandidateType(st)) :
                          CandidateValue(st) > v
                     /\ \A y \in Positions(c.wk) :
                          ( /\ Before(y, x)
                            /\ SetAt(c.wk, y).isPersonalRecord
                            /\ c.wk.exercises[y[1]].exercise = e
                            /\ CandidateType(SetAt(c.wk, y)) = CandidateType(st) )
                          => CandidateValue(st) > CandidateValue(SetAt(c.wk, y)) )

\* C20: when a completion judges a set a record and its key already has a
\* Record in what the transaction reads, the write leaves exactly one Record
\* of the key there, carrying the set's value and the superseded Record as
\* its previous.
C20_SupersedeKeepsPrevious ==
  [][ \A p \in Procs :
        LET c == call[p] IN
        ( /\ c.pc = "loop"
          /\ call'[p].personalRecords = c.personalRecords + 1
          /\ ~call'[p].storeFailed
          /\ HasKey(RecView(c),
                    <<c.userId, c.wk.exercises[c.ei].exercise,
                      CandidateType(SetAt(c.wk, <<c.ei, c.si>>))>>) )
        => LET st == SetAt(c.wk, <<c.ei, c.si>>)
               k  == <<c.userId, c.wk.exercises[c.ei].exercise, CandidateType(st)>>
               after == RecView(call'[p])
           IN /\ KeyCount(after, k) = 1
              /\ \A i \in 1..Len(after) :
                   RecordUniqueKey(after[i]) = k
                   => after[i].value = CandidateValue(st) /\ after[i].hasPrevious
    ]_vars

\* the step on which an invocation returns from a clean run
CleanReturn(p) == call[p].pc = "end" /\ CleanRun(p)'

\* C21: the step on which a clean run on a workout with n exercise entries
\* returns appends exactly n + 2 Progress rows: one per entry carrying that
\* entry's volume over completed sets, then the duration row and the
\* total-volume row equal to metrics.totalVolume; each row carries its source
\* and the workout it refers to.
C21_ProgressRowsAppended ==
  [][ \A p \in Procs :
        CleanReturn(p)
        => LET w == workouts'[call[p].id]
               n == Len(w.exercises)
               old == Len(progress)
           IN /\ Len(progress') = old + n + 2
              /\ \A i \in 1..n :
                   progress'[old + i].value = SetsVolume(w.exercises[i].sets)
              /\ progress'[old + n + 2].value = w.metrics.totalVolume
              /\ \A i \in (old + 1)..(old + n + 2) :
                   /\ progress'[i].user = call[p].userId
                   /\ {"source", "context"} \subseteq DOMAIN progress'[i]
    ]_vars

TransactionAbortedKind == "TransactionAborted"

FlaggedCount(wk) ==
  Cardinality({ x \in Positions(wk) : SetAt(wk, x).isPersonalRecord })

\* C22: after a clean run the stored workout is completed, its
\* metrics.personalRecords equals the number of its sets flagged
\* isPersonalRecord and the number of Records the call wrote, and every
\* flagged set is a completed one.
C22_RecordCountAgrees ==
  \A p \in Procs :
    CleanRun(p)
    => LET w == workouts[call[p].id] IN
       /\ w.status = "completed"
       /\ w.metrics.defined
       /\ w.metrics.personalRecords = FlaggedCount(w)
       /\ w.metrics.personalRecords = Len(call[p].recWrites)
       /\ \A x \in Positions(w) :
            SetAt(w, x).isPersonalRecord => SetAt(w, x).completed

\* C23: the step on which a clean run returns stores status completed
\* together with the metrics: the stored workout goes from in_progress
\* without those metrics to completed with them in that one step.
C23_CompletedWithMetrics ==
  [][ \A p \in Procs :
        CleanReturn(p)
        => /\ workouts[call[p].id].status = "in_progress"
           /\ workouts'[call[p].id].status = "completed"
           /\ workouts'[call[p].id].metrics = call[p].wk.metrics
           /\ workouts'[call[p].id].metrics.defined
    ]_vars

\* C24: a call that met a store failure returns TransactionAborted and
\* leaves the store as the call found it, the workout still in_progress for
\* the retry.
C24_StoreFailureRetryable ==
  \A p \in Procs :
    (Returned(p) /\ call[p].storeFailed /\ call[p].loadedStatus = "in_progress")
    => /\ call[p].result = TransactionAbortedKind
       /\ records = call[p].snapRecords
       /\ (~stale[p] => workouts[call[p].id].status = "in_progress")

\* C25: an invocation opens a transaction only on entry, and once it has
\* reached the end of its try block (committing or holding an error) its only
\* step is to return: with the error it holds, never by running the
\* completion again.
C25_NoAutomaticRetry ==
  [][ \A p \in Procs :
        /\ (call[p].txn # "active" /\ call'[p].txn = "active")
             => call[p].pc = "idle"
        /\ (call[p].pc = "end" /\ call'[p] # call[p])
             => /\ call'[p].pc = "done"
                /\ call'[p].txn \in {"committed", "aborted"}
                /\ call[p].err # "none" => call'[p].result = call[p].err
    ]_vars

\* a call that lost the race on the workout document has returned its error
C25_Witness ==
  \E p \in Procs :
    /\ Returned(p)
    /\ stale[p]
    /\ ~call[p].storeFailed
    /\ call[p].loadedStatus = "in_progress"
    /\ call[p].result = ErrCompleting
    /\ call[p].txn = "aborted"

\* the call holds a completed set of its workout whose candidate is strictly
\* above the value stored under key k when the call began
BeatsStored(p, k) ==
  /\ call[p].userId = k[1]
  /\ HasKey(call[p].snapRecords, k)
  /\ \E x \in Positions(call[p].wk) :
       LET st == SetAt(call[p].wk, x) IN
       /\ st.completed
       /\ call[p].wk.exercises[x[1]].exercise = k[2]
       /\ CandidateType(st) = k[3]
       /\ \A v \in LedgerValues(call[p].snapRecords, k[1], k[2], k[3]) :
            CandidateValue(st) > v

RecordKeys == Users \X ExerciseIds \X {"weight", "volume"}

C29_TransactionEndedOnce ==
  [][ \A p \in Procs :
        /\ call[p].txn = "active" => call'[p].txn \in {"active", "committed", "aborted"}
        /\ call[p].txn = "committed" => call'[p].txn \in {"committed", "none"}
        /\ call[p].txn = "aborted" => call'[p].txn \in {"aborted", "none"}
        /\ call'[p].pc = "done"
             => /\ call'[p].txn \in {"committed", "aborted"}
                /\ call'[p].session = "ended"
        /\ call'[p].pc \in OpenPcs
             => call'[p].txn = "active" /\ call'[p].session = "open"
    ]_vars

\* a call whose store round trip failed in the middle of the loop has
\* returned with its transaction aborted and its session ended
C29_Witness ==
  \E p \in Procs :
    /\ Returned(p)
    /\ call[p].storeFailed
    /\ call[p].si > 1
    /\ call[p].txn = "aborted"
    /\ call[p].session = "ended"

\* rows of a collection that belong to user u
UserRows(rows, u) == SelectSeq(rows, LAMBDA r : r.user = u)

\* C30: a completion touches only its caller's data: the workout it loads
\* belongs to the caller, every Record and Progress row it writes carries the
\* caller as user, its verdict on a set is decided by the Records stored
\* under the caller's own key alone, and the rows another user has in the
\* Record and Progress collections change on no step but a commit of that
\* user's own call.
C30_PerUserIsolation ==
  [][ /\ \A p \in Procs :
           LET c == call[p]  d == call'[p] IN
           /\ d.loadedStatus # "none" => workouts[d.id].user = d.userId
           /\ \A i \in 1..Len(d.recWrites) : d.recWrites[i].user = d.userId
           /\ \A i \in 1..Len(d.progWrites) : d.progWrites[i].user = d.userId
           /\ ( /\ c.pc = "loop" /\ d.si = c.si + 1 /\ ~d.storeFailed
                /\ SetAt(c.wk, <<c.ei, c.si>>).completed )
              => LET st == SetAt(c.wk, <<c.ei, c.si>>) IN
                 (d.personalRecords = c.personalRecords + 1)
                 <=> \A v \in LedgerValues(RecView(c), c.userId,
                                           c.wk.exercises[c.ei].exercise,
                                           CandidateType(st)) :
                       CandidateValue(st) > v
      /\ \A u \in Users :
           ( UserRows(records', u) # UserRows(records, u)
             \/ UserRows(progress', u) # UserRows(progress, u) )
           => \E p \in Procs : call[p].userId = u /\ call'[p].txn = "committed"
    ]_vars

\* a call of u1 flagged its 110 and wrote its Record while the collection
\* held a Record of u2 of value 200 for the same exercise and type
C30_Witness ==
  \E p \in Procs :
    /\ Returned(p)
    /\ call[p].userId = "u1"
    /\ ~call[p].storeFailed
    /\ call[p].personalRecords = 1
    /\ Len(call[p].recWrites) = 1
    /\ LedgerValues(call[p].snapRecords, "u2", "bench", "weight") = {200}
    /\ \E w \in DOMAIN workouts : workouts[w].user = "u2"

====
